---- MODULE Spec2Model ----
(***************************************************************************)
(* Model of the repository manager: RepositoryMonitor / AutonomousAgent    *)
(* (autonomous-agent.py) and GitHubRepoManager (workflow-engine.py).       *)
(*                                                                         *)
(* The monitor and the engine share no state: the monitor hands the engine *)
(* an update request and looks only at whether process_update returned     *)
(* success, returned failed, or raised.  The model is therefore explored   *)
(* as specifications over one set of variables:                            *)
(*                                                                         *)
(*   SpecEngine   the engine: construction, initialization, a manual       *)
(*                update and process_update, one step per engine method,   *)
(*                for every request a caller can make and every exit code  *)
(*                of the external commands;                                *)
(*   SpecMonitor  the monitor: the watchdog observer thread delivering     *)
(*                on_modified / on_created, interleaved with the main      *)
(*                thread's loop over process_pending_changes, in which a   *)
(*                process_update call ends in any of its three ways;       *)
(*   SpecClassify the event handlers of a fresh monitor applied to a wide  *)
(*                set of paths.                                            *)
(***************************************************************************)
EXTENDS Integers, Sequences, FiniteSets, TLC

(* ---------------------------------------------------------------- bounds *)
\* number of time.sleep(5)-sized clock advances explored
MaxTicks == 6
\* number of events the observer delivers
MaxEvents == 3
\* number of events delivered to a fresh monitor when paths are classified
MaxClassified == 1

(* ------------------------------------------------------------- constants *)
\* autonomous-agent.py:33  self.process_delay = 30
process_delay == 30
\* autonomous-agent.py:225 time.sleep(5)
SleepInterval == 5
\* time.time() at startup is epoch seconds, far past process_delay; the
\* model's clock starts at the smallest value with that property
StartTime == process_delay

None == "None"

(* ------------------------------------------------------ strings as chars *)
\* autonomous-agent.py:155  self.repo_path
repo_path == <<"/","h","o","m","e","/","j","b","_","r","e","m","u","s","/","r","e","p","o","s","/","c","l","a","u","d","e","-","c","o","d","e","-","w","s","l","-","s","e","t","u","p">>

\* the relative paths the event source reports in this model
RelPaths ==
  { <<"a",".","y","a","m","l">>,
    <<"b",".","j","s","o","n">>,
    <<"c",".","t","x","t">>,
    <<".","e","n","v">> }

\* a path of the repository that the observer of this model reports no
\* events for; it reaches the engine in requests
OtherRelPaths == { <<"d","o","c","s","/","R","E","A","D","M","E",".","m","d">> }

\* relative paths to classify: every directory, stem and extension below
\* put together, b.json, and a path inside .git
ClassifyDirs == { << >>, <<"d","o","c","s","/">>, <<"C","o","n","f","i","g","/">> }
ClassifyStems == { <<"R","E","A","D","M","E">>, <<"a">>, <<"c">>, <<"L","I","C","E","N","S","E">>, <<"s","c","r","i","p","t">> }
ClassifyExts ==
  { <<".","m","d">>, <<".","y","a","m","l">>, <<".","j","s","o","n">>, <<".","t","x","t">>,
    <<".","s","h">>, <<".","Y","M","L">>, <<".","i","n","i">>, << >> }
ClassifyRelPaths ==
  { d \o n \o e : d \in ClassifyDirs, n \in ClassifyStems, e \in ClassifyExts }
    \cup { <<"b",".","j","s","o","n">>, <<".","g","i","t","/","c","o","n","f","i","g">> }

\* a directory below repo_path, the subject of directory events
DirPaths == { <<"s","r","c">> }

\* event.src_path is absolute: the observer is scheduled on repo_path
SrcPath(rel) == repo_path \o <<"/">> \o rel
SrcPaths == { SrcPath(r) : r \in RelPaths }
\* the events the observer may deliver: (src_path, is_directory)
EventSources ==
  { << SrcPath(r), FALSE >> : r \in RelPaths } \cup { << SrcPath(d), TRUE >> : d \in DirPaths }

\* Python's `pat in s` on strings
Contains(s, pat) ==
  \E i \in 1..(Len(s) - Len(pat) + 1) : SubSeq(s, i, i + Len(pat) - 1) = pat

UpperToLower ==
  [ c \in {"A","B","C","D","E","F","G","H","I","J","K","L","M","N","O","P","Q","R","S","T","U","V","W","X","Y","Z"} |->
      CASE c = "A" -> "a" [] c = "B" -> "b" [] c = "C" -> "c" [] c = "D" -> "d"
        [] c = "E" -> "e" [] c = "F" -> "f" [] c = "G" -> "g" [] c = "H" -> "h"
        [] c = "I" -> "i" [] c = "J" -> "j" [] c = "K" -> "k" [] c = "L" -> "l"
        [] c = "M" -> "m" [] c = "N" -> "n" [] c = "O" -> "o" [] c = "P" -> "p"
        [] c = "Q" -> "q" [] c = "R" -> "r" [] c = "S" -> "s" [] c = "T" -> "t"
        [] c = "U" -> "u" [] c = "V" -> "v" [] c = "W" -> "w" [] c = "X" -> "x"
        [] c = "Y" -> "y" [] c = "Z" -> "z" ]
\* str.lower()
Lower(s) == [ i \in 1..Len(s) |-> IF s[i] \in DOMAIN UpperToLower THEN UpperToLower[s[i]] ELSE s[i] ]

\* filepath.relative_to(self.repo_path)
relative_to(filepath, base) == SubSeq(filepath, Len(base) + 2, Len(filepath))

ignore_patterns ==
  { <<".","g","i","t","/">>, <<"_","_","p","y","c","a","c","h","e","_","_","/">>,
    <<".","p","y","c">>, <<".","l","o","g">>, <<".","t","m","p">>,
    <<".","s","w","p">>, <<".","D","S","_","S","t","o","r","e">>,
    <<"n","o","d","e","_","m","o","d","u","l","e","s","/">>, <<".","e","n","v">> }

_should_ignore_file(filepath) == \E pattern \in ignore_patterns : Contains(filepath, pattern)
\* _should_ignore_file over the paths of the model, evaluated once
IgnoredSrcPaths ==
  { p \in { e[1] : e \in EventSources } \cup { SrcPath(r) : r \in ClassifyRelPaths } :
      _should_ignore_file(p) }

DocMarkers == { <<"r","e","a","d","m","e">>, <<"d","o","c">>, <<".","m","d">>, <<"l","i","c","e","n","s","e">> }
CfgMarkers == { <<"c","o","n","f","i","g">>, <<".","y","a","m","l">>, <<".","y","m","l">>, <<".","j","s","o","n">>, <<".","i","n","i">> }
ScriptMarkers == { <<".","s","h">>, <<".","p","y">>, <<"s","c","r","i","p","t">> }

\* _categorize_file testing the config markers before the docs markers
_categorize_file_config_first(filepath) ==
  LET path_str == Lower(relative_to(filepath, repo_path)) IN
    IF \E cfg \in CfgMarkers : Contains(path_str, cfg) THEN "config"
    ELSE IF \E doc \in DocMarkers : Contains(path_str, doc) THEN "docs"
    ELSE "feature"

\* _categorize_file filing what matches no marker under fix
_categorize_file_default_fix(filepath) ==
  LET path_str == Lower(relative_to(filepath, repo_path)) IN
    IF \E doc \in DocMarkers : Contains(path_str, doc) THEN "docs"
    ELSE IF \E cfg \in CfgMarkers : Contains(path_str, cfg) THEN "config"
    ELSE IF \E script \in ScriptMarkers : Contains(path_str, script) THEN "feature"
    ELSE "fix"

\* _categorize_file, lines 57-69
_categorize_file(filepath) ==
  LET path_str == Lower(relative_to(filepath, repo_path)) IN
    IF \E doc \in DocMarkers : Contains(path_str, doc) THEN "docs"
    ELSE IF \E cfg \in CfgMarkers : Contains(path_str, cfg) THEN "config"
    ELSE IF \E script \in ScriptMarkers : Contains(path_str, script) THEN "feature"
    ELSE "feature"

\* _categorize_file over the file paths of the model, evaluated once
CategoryOf ==
  [ p \in SrcPaths \cup { SrcPath(r) : r \in OtherRelPaths \cup ClassifyRelPaths } |->
      _categorize_file(p) ]

\* what the file at a path is when it is hashed
FileStates == { "missing", "v1", "v2" }
\* hashlib.md5 of the content, "" when the file is not there
_get_file_hash(fstate) ==
  CASE fstate = "missing" -> "" [] fstate = "v1" -> "md5-v1" [] fstate = "v2" -> "md5-v2"

\* dict.get(key, "")
HashGet(hashes, key) == IF key \in DOMAIN hashes THEN hashes[key] ELSE ""
\* d[key] = value
DictSet(d, key, value) == [ k \in DOMAIN d \cup {key} |-> IF k = key THEN value ELSE d[k] ]

\* keys of self.pending_changes, in insertion order (dict iteration order)
CategoryOrder == << "feature", "docs", "config", "fix" >>
Categories == { CategoryOrder[i] : i \in 1..Len(CategoryOrder) }

\* the description without the single-file case of lines 127-128
Description_counting(category, files) ==
  << "Update", Cardinality(files), category, "files" >>

\* description built by _process_category_changes
Description(category, files) ==
  IF Cardinality(files) = 1
    THEN << "Update", CHOOSE f \in files : TRUE >>
    ELSE << "Update", Cardinality(files), category, "files" >>

NoRequest == [ category |-> None, files |-> {}, description |-> <<>> ]


(* ------------------------------------------------------- workflow engine *)
\* config['branch_protection']['protected_branches']
protected_branches == { "main", "master" }

\* exit codes a git / gh invocation may return
ExitCodes == { 0, 1 }

\* process_update: branch_type_map and its .get(update_type, 'feature')
branch_type_map ==
  [ u \in { "feature", "documentation", "bugfix", "configuration", "maintenance" } |->
      CASE u = "feature" -> "feature"
        [] u = "documentation" -> "docs"
        [] u = "bugfix" -> "fix"
        [] u = "configuration" -> "config"
        [] u = "maintenance" -> "update" ]
BranchTypeOf(update_type) ==
  IF update_type \in DOMAIN branch_type_map THEN branch_type_map[update_type] ELSE "feature"

\* config['workflow_rules']['branch_strategy']: the configurations explored.
\* The first has no pattern configured (create_feature_branch falls back to
\* its default); the second configures a template without placeholders that
\* is the name of a protected branch.
DefaultPattern == "feature/{timestamp}-{description}"
BranchStrategies ==
  { [ k \in {} |-> "" ],
    [ k \in { <<"feature", "_pattern">> } |-> "main" ] }

\* pattern.format(timestamp=..., description=...)
Format(pattern) == IF pattern = DefaultPattern THEN "feature/ts-desc" ELSE pattern

\* create_feature_branch: the branch name computed from the configuration
BranchNameFor(strategy, branch_type) ==
  LET pattern_key == << branch_type, "_pattern" >>
      pattern == IF pattern_key \in DOMAIN strategy THEN strategy[pattern_key] ELSE DefaultPattern
  IN Format(pattern)

\* _ensure_not_on_main: f"work/{timestamp}"
safe_branch == "work/ts"

\* `if not self.current_branch`
Falsy(b) == b \in { None, "" }

\* values yaml.safe_load may give config['safeguards']['prevent_main_commit']:
\* the booleans of `true` and `false`, None of an empty value, and the string
\* of a quoted "false"
ConfigValues == { "True", "False", "None", "'false'" }
\* `not value` of line 49
Not(value) == value \in { "False", "None", "''", "0" }

\* main(), lines 256-277: `monitor` (or no argument) runs the agent, `update
\* DESC FILE...` calls handle_manual_update(files, description); other
\* callers of handle_manual_update may pass any list, the empty one included
MonitorEntry == [ mode |-> "monitor", files |-> {}, description |-> << >> ]
ManualEntries ==
  { [ mode |-> "update", files |-> F, description |-> << "manual" >> ] :
      F \in { {}, { <<"a",".","y","a","m","l">> },
              { <<"a",".","y","a","m","l">>, <<"c",".","t","x","t">> } } }
\* contents .file_hashes.json may have when the program starts
HashFiles ==
  { [ k \in {} |-> "" ], [ k \in { SrcPath(<<"a",".","y","a","m","l">>) } |-> "md5-v1" ] }

\* one invocation of an external command: what was run, the branch checked
\* out when it ran, and its exit code
Cmd(c, a, on, rc) == [ cmd |-> c, arg |-> a, on |-> on, rc |-> rc ]

RECURSIVE SeqOfSet(_)
\* list(files): some enumeration of the set
SeqOfSet(S) ==
  IF S = {} THEN << >>
  ELSE LET x == CHOOSE y \in S : TRUE IN << x >> \o SeqOfSet(S \ {x})

AllOk(cmds) == \A i \in 1..Len(cmds) : cmds[i].rc = 0

\* one engine method call as the ledger keeps it: the commands it issued and
\* the branch checked out at each, whether all of them exited with 0, and the
\* exception it raised (None: none)
Call(op, cmds, raised) ==
  [ op |-> op,
    cmds |-> [ i \in 1..Len(cmds) |-> [ cmd |-> cmds[i].cmd, arg |-> cmds[i].arg, on |-> cmds[i].on ] ],
    ok |-> AllOk(cmds) /\ raised = None,
    raised |-> raised ]

\* _ensure_not_on_main, lines 83-93, on a working copy with branch co checked
\* out: the branch checked out afterwards and the commands run.  A failed
\* `git branch --show-current` leaves an empty stdout.
_ensure_not_on_main(co, rc_show, rc_checkout) ==
  LET current == IF rc_show = 0 THEN co ELSE ""
      show == Cmd("branch --show-current", "", co, rc_show)
  IN IF current \in protected_branches
       THEN [ co |-> IF rc_checkout = 0 THEN safe_branch ELSE co,
              cmds |-> << show, Cmd("checkout -b", safe_branch, co, rc_checkout) >> ]
       ELSE [ co |-> co, cmds |-> << show >> ]

\* create_feature_branch, lines 95-119
create_feature_branch(strategy, co, branch_type, rc_fetch, rc_checkout) ==
  LET branch_name == BranchNameFor(strategy, branch_type)
  IN [ co |-> IF rc_checkout = 0 THEN branch_name ELSE co,
       current_branch |-> branch_name,
       cmds |-> << Cmd("fetch", "origin", co, rc_fetch),
                   Cmd("checkout -b", branch_name, co, rc_checkout) >> ]

\* commit_changes, lines 121-139; added: the files whose `git add` succeeds
commit_changes(co, st, files, description, rc_show, rc_checkout, added, rc_commit) ==
  LET guard == _ensure_not_on_main(co, rc_show, rc_checkout)
      fs == SeqOfSet(files)
      adds == [ i \in 1..Len(fs) |->
                  Cmd("add", fs[i], guard.co, IF fs[i] \in added THEN 0 ELSE 1) ]
  IN [ co |-> guard.co,
       staged |-> IF rc_commit = 0 THEN {} ELSE st \cup added,
       cmds |-> guard.cmds \o adds \o << Cmd("commit -m", description, guard.co, rc_commit) >> ]

\* push_branch without the check of lines 147-149
push_branch_unguarded(cb, co, rc) ==
  IF Falsy(cb) THEN [ raised |-> "ValueError: No current branch set", cmds |-> << >> ]
  ELSE [ raised |-> None, cmds |-> << Cmd("push -u origin", cb, co, rc) >> ]

\* push_branch(set_upstream=True), lines 141-158: the exception raised (None:
\* none) and the commands run
push_branch(cb, co, rc) ==
  IF Falsy(cb) THEN [ raised |-> "ValueError: No current branch set", cmds |-> << >> ]
  ELSE IF cb \in protected_branches
    THEN [ raised |-> "ValueError: BLOCKED", cmds |-> << >> ]
    ELSE [ raised |-> None, cmds |-> << Cmd("push -u origin", cb, co, rc) >> ]

\* what `gh pr create` may print on stdout: the URL of the pull request, or
\* nothing
PrStdouts == { "https://pr_url", "" }

\* create_pull_request without the test of result.returncode, line 185
create_pull_request_unchecked(co, rc_version, rc_pr, stdout) ==
  LET version == Cmd("gh --version", "", co, rc_version)
  IN IF rc_version # 0
       THEN [ pr_url |-> None, cmds |-> << version >> ]
       ELSE [ pr_url |-> "https://pr_url",
              cmds |-> << version, Cmd("gh pr create", "main", co, rc_pr) >> ]

\* create_pull_request, lines 160-191
create_pull_request(co, rc_version, rc_pr, stdout) ==
  LET version == Cmd("gh --version", "", co, rc_version)
  IN IF rc_version # 0
       THEN [ pr_url |-> None, cmds |-> << version >> ]
       ELSE [ pr_url |-> IF rc_pr = 0 THEN stdout ELSE None,
              cmds |-> << version, Cmd("gh pr create", "main", co, rc_pr) >> ]

NoResult == [ branch |-> None, commit_type |-> None, pr_url |-> None, status |-> None ]

(* ----------------------------------------------------------------- state *)
VARIABLES
  pc,                \* monitor: position of the main thread
  now,               \* time.time()
  file_hashes,       \* RepositoryMonitor.file_hashes: src path -> hash
  pending_changes,   \* RepositoryMonitor.pending_changes: category -> set of relative paths
  last_process_time, \* RepositoryMonitor.last_process_time
  hash_file,         \* content of .file_hashes.json
  current_time,      \* process_pending_changes: current_time of the running/last call
  cat_idx,           \* process_pending_changes: position of the loop over pending_changes.items()
  request,           \* arguments of the running/last process_update call
  outcome,           \* monitor: how the process_update call of the category being processed ended
  flush,             \* the running/last process_pending_changes call: [state, emitted, clean,
                     \* first_failed]: how far it got, the number of requests it passed on,
                     \* whether no change had been accepted since the call before it that
                     \* passed the delay check, and which of its requests was the first
                     \* whose process_update did not succeed (0: none)
  last_pass_time,    \* current_time of the last call that passed the delay check
  last_event,        \* last event delivered by the observer; repeat: it was accepted and
                     \* computed the hash that the event before it for the same path did;
                     \* settled: its path had a recorded hash and was in no pending set
  n_events,          \* number of events delivered so far
  seen,              \* src path -> hash computed by the last accepted event for it
  owed,              \* relative paths added to pending_changes and not yet passed to process_update
  dirty,             \* a change was accepted since the last flush passed the delay check
  step,              \* engine: position of the thread using the manager
  branch_strategy,   \* configuration (fixed at startup)
  prevent_main_commit, \* config['safeguards']['prevent_main_commit'] as the YAML gives it
  entry,             \* how the program was started: [mode, files, description]
  checked_out,       \* branch checked out in the working copy (None: no working copy yet)
  staged,            \* paths staged in the working copy's index
  current_branch,    \* GitHubRepoManager.current_branch
  result,            \* value returned by the running/last process_update
  exception,         \* exception that left the running/last process_update (None: none)
  calls              \* engine methods run by the last entry point, in order

vars == << pc, now, file_hashes, pending_changes, last_process_time, hash_file,
           current_time, cat_idx, request, outcome, flush, last_pass_time,
           last_event, n_events, seen, owed, dirty,
           step, branch_strategy, prevent_main_commit, entry,
           checked_out, staged, current_branch,
           result, exception, calls >>

accumulator == << file_hashes, pending_changes, last_process_time, hash_file >>
flushLocals == << current_time, cat_idx, outcome, flush, last_pass_time >>
observerGhosts == << last_event, n_events, seen, owed, dirty >>
monitorVars == << pc, now, accumulator, flushLocals, observerGhosts >>
workingCopy == << checked_out, staged >>
settings == << branch_strategy, prevent_main_commit, entry >>
engineVars == << step, settings, workingCopy, current_branch, result, exception, calls >>

NoEvent == [ kind |-> None, src_path |-> << >>, is_directory |-> FALSE, repeat |-> FALSE, settled |-> FALSE ]
MaxTime == StartTime + MaxTicks * SleepInterval

\* RepositoryMonitor.__init__, lines 23-35, with .file_hashes.json holding hf
\* (empty: no such file yet), and a time.time() past process_delay
MonitorConstructed(hf) ==
  /\ now = StartTime
  /\ file_hashes = hf
  /\ pending_changes = [ c \in Categories |-> {} ]
  /\ last_process_time = 0
  /\ hash_file = hf
  /\ current_time = 0
  /\ cat_idx = 0
  /\ request = NoRequest
  /\ outcome = None
  /\ flush = [ state |-> None, emitted |-> 0, clean |-> TRUE, first_failed |-> 0 ]
  /\ last_pass_time = 0
  /\ last_event = NoEvent
  /\ n_events = 0
  /\ seen = [ k \in {} |-> "" ]
  /\ owed = {}
  /\ dirty = FALSE

\* GitHubRepoManager.__init__, lines 20-25
EngineConstructed ==
  /\ staged = {}
  /\ current_branch = None
  /\ result = NoResult
  /\ exception = None
  /\ calls = << >>

\* the program is started in either mode, on any configuration, with the
\* working copy missing, on a protected branch or on a branch of its own;
\* GitHubRepoManager() is about to be constructed (autonomous-agent.py:154)
Init ==
  /\ pc = "start"
  /\ step = "new"
  /\ \E hf \in HashFiles : MonitorConstructed(hf)
  /\ EngineConstructed
  /\ branch_strategy \in BranchStrategies
  /\ prevent_main_commit \in ConfigValues
  /\ entry \in { MonitorEntry } \cup ManualEntries
  /\ checked_out \in { None, "main", safe_branch }

\* the agent in run() after initialize() found an existing checkout, line 185
InitMonitor ==
  /\ pc = "monitor"
  /\ step = "idle"
  /\ MonitorConstructed([ k \in {} |-> "" ])
  /\ EngineConstructed
  /\ branch_strategy = [ k \in {} |-> "" ]
  /\ prevent_main_commit = "True"
  /\ entry = MonitorEntry
  /\ checked_out = "main"

(* -------------------------------------------------------- observer thread *)
\* observer.start() comes after initialize(), line 217
ObserverRunning == pc # "start" /\ n_events < MaxEvents

\* on_modified without the checks of lines 82-89
on_modified_no_ignore(kind, src_path, is_directory, fstate) ==
  /\ last_event' = [ kind |-> kind, src_path |-> src_path, is_directory |-> is_directory,
                     repeat |-> FALSE, settled |-> FALSE ]
  /\ n_events' = n_events + 1
  /\ LET new_hash == _get_file_hash(fstate)
         old_hash == HashGet(file_hashes, src_path)
         rel_path == relative_to(src_path, repo_path)
     IN /\ seen' = DictSet(seen, src_path, new_hash)
        /\ IF new_hash # old_hash
             THEN /\ file_hashes' = DictSet(file_hashes, src_path, new_hash)
                  /\ pending_changes' = [ pending_changes EXCEPT !["feature"] = @ \cup { rel_path } ]
                  /\ owed' = owed \cup { rel_path }
                  /\ dirty' = TRUE
             ELSE UNCHANGED << file_hashes, pending_changes, owed, dirty >>

\* on_modified without the assignment of line 96
on_modified_no_record(kind, src_path, is_directory, fstate) ==
  /\ last_event' = [ kind |-> kind, src_path |-> src_path, is_directory |-> is_directory,
                     repeat |-> /\ ~ is_directory
                                /\ src_path \notin IgnoredSrcPaths
                                /\ src_path \in DOMAIN seen
                                /\ seen[src_path] = _get_file_hash(fstate),
                     settled |-> /\ src_path \in DOMAIN file_hashes
                                 /\ \A c \in Categories :
                                      relative_to(src_path, repo_path) \notin pending_changes[c] ]
  /\ n_events' = n_events + 1
  /\ IF is_directory \/ src_path \in IgnoredSrcPaths
       THEN UNCHANGED << file_hashes, pending_changes, seen, owed, dirty >>
       ELSE LET new_hash == _get_file_hash(fstate)
                old_hash == HashGet(file_hashes, src_path)
                category == CategoryOf[src_path]
                rel_path == relative_to(src_path, repo_path)
            IN /\ seen' = DictSet(seen, src_path, new_hash)
               /\ IF new_hash # old_hash
                    THEN /\ pending_changes' =
                              [ pending_changes EXCEPT ![category] = @ \cup { rel_path } ]
                         /\ owed' = owed \cup { rel_path }
                         /\ dirty' = TRUE
                         /\ UNCHANGED file_hashes
                    ELSE UNCHANGED << file_hashes, pending_changes, owed, dirty >>

\* on_modified(event), lines 80-100; kind records which handler was entered
on_modified(kind, src_path, is_directory, fstate) ==
  /\ last_event' = [ kind |-> kind, src_path |-> src_path, is_directory |-> is_directory,
                     repeat |-> /\ ~ is_directory
                                /\ src_path \notin IgnoredSrcPaths
                                /\ src_path \in DOMAIN seen
                                /\ seen[src_path] = _get_file_hash(fstate),
                     settled |-> /\ src_path \in DOMAIN file_hashes
                                 /\ \A c \in Categories :
                                      relative_to(src_path, repo_path) \notin pending_changes[c] ]
  /\ n_events' = n_events + 1
  /\ IF is_directory \/ src_path \in IgnoredSrcPaths
       THEN UNCHANGED << file_hashes, pending_changes, seen, owed, dirty >>
       ELSE LET new_hash == _get_file_hash(fstate)
                old_hash == HashGet(file_hashes, src_path)
                category == CategoryOf[src_path]
                rel_path == relative_to(src_path, repo_path)
            IN /\ seen' = DictSet(seen, src_path, new_hash)
               /\ IF new_hash # old_hash
                    THEN /\ file_hashes' = DictSet(file_hashes, src_path, new_hash)
                         /\ pending_changes' =
                              [ pending_changes EXCEPT ![category] = @ \cup { rel_path } ]
                         /\ owed' = owed \cup { rel_path }
                         /\ dirty' = TRUE
                    ELSE UNCHANGED << file_hashes, pending_changes, owed, dirty >>

\* the file whose content changes and which is deleted while the program runs
VolatileSrcPaths == { SrcPath(<<"a",".","y","a","m","l">>) }
\* the file states an event may find: a directory cannot be read as a file,
\* and the content of the files other than the volatile one is kept fixed
FileStatesFor(e) ==
  IF e[2] THEN { "missing" } ELSE IF e[1] \in VolatileSrcPaths THEN FileStates ELSE { "v1" }

OnModified ==
  /\ ObserverRunning
  /\ \E e \in EventSources : \E fstate \in FileStatesFor(e) :
       on_modified("modified", e[1], e[2], fstate)
  /\ UNCHANGED << pc, now, last_process_time, hash_file, flushLocals, request, engineVars >>

\* on_created(event), lines 102-105
OnCreated ==
  /\ ObserverRunning
  /\ \E e \in EventSources : \E fstate \in FileStatesFor(e) :
       IF ~ e[2]
         THEN on_modified("created", e[1], e[2], fstate)
         ELSE /\ last_event' = [ kind |-> "created", src_path |-> e[1], is_directory |-> e[2],
                                 repeat |-> FALSE, settled |-> FALSE ]
              /\ n_events' = n_events + 1
              /\ UNCHANGED << file_hashes, pending_changes, seen, owed, dirty >>
  /\ UNCHANGED << pc, now, last_process_time, hash_file, flushLocals, request, engineVars >>

(* ------------------------------------------------- main thread of run() *)
\* one turn of the loop of run(), lines 220-225, whose process_pending_changes
\* returns at the delay check of lines 109-113: the call, then time.sleep(5)
ProcessPendingSkip ==
  /\ pc = "monitor"
  /\ now - last_process_time < process_delay
  /\ now < MaxTime
  /\ current_time' = now
  /\ flush' = [ state |-> "skipped", emitted |-> 0, clean |-> ~ dirty, first_failed |-> 0 ]
  /\ now' = now + SleepInterval
  /\ UNCHANGED << pc, accumulator, cat_idx, request, outcome, last_pass_time,
                  observerGhosts, engineVars >>

\* process_pending_changes, lines 109-115, passing the delay check
ProcessPendingChanges ==
  /\ pc = "monitor"
  /\ ~ (now - last_process_time < process_delay)
  /\ current_time' = now
  /\ flush' = [ state |-> "running", emitted |-> 0, clean |-> ~ dirty, first_failed |-> 0 ]
  /\ last_pass_time' = now
  /\ cat_idx' = 1
  /\ dirty' = FALSE
  /\ pc' = "loop"
  /\ UNCHANGED << now, accumulator, request, outcome, last_event, n_events, seen, owed,
                  engineVars >>

\* how a process_update call ends for _process_category_changes, lines
\* 138-146: result['status'] is 'success' or not, or an exception is caught
UpdateOutcomes == { "success", "failed", "raised" }

\* process_pending_changes, lines 116-118, for one category: list(files) and
\* _process_category_changes, lines 124-146, to its return
LoopCategory ==
  /\ pc = "loop"
  /\ cat_idx <= Len(CategoryOrder)
  /\ LET category == CategoryOrder[cat_idx]
         files == pending_changes[category]
     IN IF files = {}
          THEN /\ cat_idx' = cat_idx + 1
               /\ UNCHANGED << pc, request, outcome, flush, owed >>
          ELSE /\ request' = [ category |-> category, files |-> files,
                               description |-> Description(category, files) ]
               /\ outcome' \in UpdateOutcomes
               /\ flush' = [ flush EXCEPT
                               !.emitted = @ + 1,
                               !.first_failed = IF @ = 0 /\ outcome' # "success"
                                                  THEN flush.emitted + 1 ELSE @ ]
               /\ owed' = owed \ files
               /\ pc' = "clear"
               /\ UNCHANGED cat_idx
  /\ UNCHANGED << now, accumulator, current_time, last_pass_time, last_event, n_events,
                  seen, dirty, engineVars >>

\* process_pending_changes clearing a category's set only when its
\* process_update succeeded
ClearCategory_keeping_failed ==
  /\ pc = "clear"
  /\ pending_changes' = IF outcome = "success"
                          THEN [ pending_changes EXCEPT ![CategoryOrder[cat_idx]] = {} ]
                          ELSE pending_changes
  /\ cat_idx' = cat_idx + 1
  /\ request' = NoRequest
  /\ outcome' = None
  /\ pc' = "loop"
  /\ UNCHANGED << now, file_hashes, last_process_time, hash_file, current_time, flush,
                  last_pass_time, observerGhosts, engineVars >>

\* _process_category_changes without the except clause of lines 145-146: the
\* exception leaves process_pending_changes and the loop of run()
ClearCategory_propagating ==
  /\ pc = "clear"
  /\ IF outcome = "raised"
       THEN /\ pc' = "crashed"
            /\ UNCHANGED << pending_changes, cat_idx, request, outcome >>
       ELSE /\ pending_changes' = [ pending_changes EXCEPT ![CategoryOrder[cat_idx]] = {} ]
            /\ cat_idx' = cat_idx + 1
            /\ request' = NoRequest
            /\ outcome' = None
            /\ pc' = "loop"
  /\ UNCHANGED << now, file_hashes, last_process_time, hash_file, current_time, flush,
                  last_pass_time, observerGhosts, engineVars >>

\* _process_category_changes returns, lines 140-146, whatever process_update
\* did; process_pending_changes, line 119: files.clear() on the category's own
\* set object, then the loop moves on
ClearCategory ==
  /\ pc = "clear"
  /\ pending_changes' = [ pending_changes EXCEPT ![CategoryOrder[cat_idx]] = {} ]
  /\ cat_idx' = cat_idx + 1
  /\ request' = NoRequest
  /\ outcome' = None
  /\ pc' = "loop"
  /\ UNCHANGED << now, file_hashes, last_process_time, hash_file, current_time, flush,
                  last_pass_time, observerGhosts, engineVars >>

\* process_pending_changes without the assignment of line 121
FinishProcessPending_keeping_time ==
  /\ pc = "loop"
  /\ cat_idx > Len(CategoryOrder)
  /\ now < MaxTime
  /\ hash_file' = file_hashes
  /\ flush' = [ flush EXCEPT !.state = "done" ]
  /\ now' = now + SleepInterval
  /\ pc' = "monitor"
  /\ UNCHANGED << file_hashes, pending_changes, last_process_time, current_time, cat_idx,
                  request, outcome, last_pass_time, observerGhosts, engineVars >>

\* process_pending_changes, lines 121-122, and the time.sleep(5) of run()
FinishProcessPending ==
  /\ pc = "loop"
  /\ cat_idx > Len(CategoryOrder)
  /\ now < MaxTime
  /\ last_process_time' = current_time
  /\ hash_file' = file_hashes
  /\ flush' = [ flush EXCEPT !.state = "done" ]
  /\ now' = now + SleepInterval
  /\ pc' = "monitor"
  /\ UNCHANGED << file_hashes, pending_changes, current_time, cat_idx, request, outcome,
                  last_pass_time, observerGhosts, engineVars >>

NextMonitor ==
  \/ OnModified
  \/ OnCreated
  \/ ProcessPendingSkip
  \/ ProcessPendingChanges
  \/ LoopCategory
  \/ ClearCategory
  \/ FinishProcessPending

SpecMonitor == InitMonitor /\ [][NextMonitor]_vars

(* ------------------------------------------------- classification of paths *)
\* a monitor just constructed, about to receive events for any path
InitClassify ==
  /\ pc = "classify"
  /\ step = "idle"
  /\ MonitorConstructed([ k \in {} |-> "" ])
  /\ EngineConstructed
  /\ branch_strategy = [ k \in {} |-> "" ]
  /\ prevent_main_commit = "True"
  /\ entry = MonitorEntry
  /\ checked_out = "main"

\* on_modified, lines 80-100, for a file at any of the paths to classify
ModifiedAnyPath ==
  /\ pc = "classify"
  /\ n_events < MaxClassified
  /\ \E r \in ClassifyRelPaths : on_modified("modified", SrcPath(r), FALSE, "v1")
  /\ UNCHANGED << pc, now, last_process_time, hash_file, flushLocals, request, engineVars >>

\* on_created, lines 102-105, likewise
CreatedAnyPath ==
  /\ pc = "classify"
  /\ n_events < MaxClassified
  /\ \E r \in ClassifyRelPaths : on_modified("created", SrcPath(r), FALSE, "v2")
  /\ UNCHANGED << pc, now, last_process_time, hash_file, flushLocals, request, engineVars >>

NextClassify ==
  \/ ModifiedAnyPath
  \/ CreatedAnyPath

SpecClassify == InitClassify /\ [][NextClassify]_vars

(* ---------------------------------------------------------------- engine *)
\* GitHubRepoManager.__init__, lines 20-25: _validate_configuration raises
\* ValueError at line 50 and no manager exists
Construct ==
  /\ step = "new"
  /\ step' = IF Not(prevent_main_commit) THEN "crashed" ELSE "start"
  /\ UNCHANGED << monitorVars, request, settings, workingCopy, current_branch,
                  result, exception, calls >>

\* AutonomousAgent.initialize(), lines 174-185.  An existing checkout only
\* gets manager.repo_path assigned; a missing one is cloned by
\* initialize_repository, lines 69-81 (subprocess.run(..., check=True) raises
\* on a failed clone), which then runs the guard.
Initialize ==
  /\ step = "start"
  /\ entry.mode = "monitor"
  /\ IF checked_out # None
       THEN /\ step' = "idle"
            /\ calls' = << >>
            /\ UNCHANGED checked_out
       ELSE \E rc_clone \in ExitCodes, rc_show \in ExitCodes, rc_checkout \in ExitCodes :
              LET clone == Cmd("clone", "remote_url", None, rc_clone)
                  guard == _ensure_not_on_main("main", rc_show, rc_checkout)
              IN IF rc_clone # 0
                   THEN /\ step' = "crashed"
                        /\ calls' = << Call("initialize_repository", << clone >>, "CalledProcessError") >>
                        /\ UNCHANGED checked_out
                   ELSE /\ step' = "idle"
                        /\ checked_out' = guard.co
                        /\ calls' = << Call("initialize_repository", << clone >> \o guard.cmds, None) >>
  /\ UNCHANGED << monitorVars, request, settings, staged, current_branch,
                  result, exception >>

\* a client of the engine (setup_agent() hands out the manager) calls
\* push_branch() on the freshly constructed manager
PushBranchCall ==
  /\ step = "start"
  /\ \E rc \in ExitCodes :
       LET r == push_branch(current_branch, checked_out, rc)
       IN calls' = << Call("push_branch", r.cmds, r.raised) >>
  /\ UNCHANGED << monitorVars, request, step, settings, workingCopy,
                  current_branch, result, exception >>

\* the requests the monitor can pass: a category of pending_changes with a
\* non-empty set of paths of that category
UpdateRequests ==
  { [ category |-> c, files |-> F, description |-> Description(c, F) ] :
      c \in Categories,
      F \in SUBSET ({ relative_to(p, repo_path) : p \in SrcPaths \ IgnoredSrcPaths }
                      \cup OtherRelPaths) }

\* a manual update that queues its files in the accumulator for the next
\* flush instead of calling process_update
HandleManualUpdate_queueing ==
  /\ step = "start"
  /\ entry.mode = "update"
  /\ pending_changes' = [ pending_changes EXCEPT !["feature"] = @ \cup entry.files ]
  /\ file_hashes' = [ p \in DOMAIN file_hashes \cup { SrcPath(f) : f \in entry.files } |-> "md5-v1" ]
  /\ step' = "idle"
  /\ UNCHANGED << pc, now, last_process_time, hash_file, flushLocals, observerGhosts,
                  request, settings, workingCopy, current_branch, result, exception, calls >>

\* handle_manual_update, lines 234-242: the fresh manager has no repo_path, so
\* initialize_repository clones a missing working copy and runs the guard;
\* then process_update is entered with the files and description given.  An
\* exception of the clone is caught at line 251.
HandleManualUpdate ==
  /\ step = "start"
  /\ entry.mode = "update"
  /\ \E rc_clone \in ExitCodes, rc_show \in ExitCodes, rc_checkout \in ExitCodes :
       LET guard == _ensure_not_on_main(IF checked_out = None THEN "main" ELSE checked_out,
                                        rc_show, rc_checkout)
       IN IF checked_out = None /\ rc_clone # 0
            THEN /\ step' = "crashed"
                 /\ UNCHANGED << request, checked_out >>
            ELSE /\ step' = "create_branch"
                 /\ checked_out' = guard.co
                 /\ request' = [ category |-> "feature", files |-> entry.files,
                                 description |-> entry.description ]
  /\ calls' = << >>
  /\ result' = NoResult
  /\ exception' = None
  /\ UNCHANGED << monitorVars, settings, staged, current_branch >>

\* process_update is entered, line 193 (from _process_category_changes, line 138)
ProcessUpdate ==
  /\ step = "idle"
  /\ entry.mode = "monitor"
  /\ \E req \in UpdateRequests :
       /\ req.files # {}
       /\ \A f \in req.files : CategoryOf[SrcPath(f)] = req.category
       /\ request' = req
  /\ calls' = << >>
  /\ result' = NoResult
  /\ exception' = None
  /\ step' = "create_branch"
  /\ UNCHANGED << monitorVars, settings, workingCopy, current_branch >>

\* process_update lines 206-207: create_feature_branch
CreateFeatureBranch ==
  /\ step = "create_branch"
  /\ \E rc_fetch \in ExitCodes, rc_checkout \in ExitCodes :
       LET b == create_feature_branch(branch_strategy, checked_out,
                                      BranchTypeOf(request.category), rc_fetch, rc_checkout)
       IN /\ checked_out' = b.co
          /\ current_branch' = b.current_branch
          /\ calls' = Append(calls, Call("create_feature_branch", b.cmds, None))
  /\ step' = "commit"
  /\ UNCHANGED << monitorVars, request, settings, staged, result, exception >>

\* process_update lines 210-214: commit_changes
CommitChanges ==
  /\ step = "commit"
  /\ \E rc_show \in ExitCodes, rc_checkout \in ExitCodes,
        added \in SUBSET request.files, rc_commit \in ExitCodes :
       LET c == commit_changes(checked_out, staged, request.files, request.description,
                               rc_show, rc_checkout, added, rc_commit)
       IN /\ checked_out' = c.co
          /\ staged' = c.staged
          /\ calls' = Append(calls, Call("commit_changes", c.cmds, None))
  /\ step' = "push"
  /\ UNCHANGED << monitorVars, request, settings, current_branch, result, exception >>

\* process_update going on to the pull request after push_branch raised
PushBranch_swallowing ==
  /\ step = "push"
  /\ \E rc \in ExitCodes :
       LET p == push_branch(current_branch, checked_out, rc)
       IN /\ calls' = Append(calls, Call("push_branch", p.cmds, p.raised))
          /\ exception' = p.raised
          /\ step' = "pr"
  /\ UNCHANGED << monitorVars, request, settings, workingCopy, current_branch, result >>

\* process_update line 217: push_branch(); its exception leaves process_update
PushBranch ==
  /\ step = "push"
  /\ \E rc \in ExitCodes :
       LET p == push_branch(current_branch, checked_out, rc)
       IN /\ calls' = Append(calls, Call("push_branch", p.cmds, p.raised))
          /\ exception' = p.raised
          /\ step' = IF p.raised = None THEN "pr" ELSE "returned"
  /\ UNCHANGED << monitorVars, request, settings, workingCopy, current_branch, result >>

\* process_update lines 220-231: create_pull_request and the value returned
CreatePullRequest ==
  /\ step = "pr"
  /\ \E rc_version \in ExitCodes, rc_pr \in ExitCodes, stdout \in PrStdouts :
       LET r == create_pull_request(checked_out, rc_version, rc_pr, stdout)
       IN /\ calls' = Append(calls, Call("create_pull_request", r.cmds, None))
          /\ result' = [ branch |-> current_branch,
                         commit_type |-> BranchTypeOf(request.category),
                         pr_url |-> r.pr_url,
                         status |-> IF ~ Falsy(r.pr_url) THEN "success" ELSE "failed" ]
  /\ step' = "returned"
  /\ UNCHANGED << monitorVars, request, settings, workingCopy, current_branch, exception >>

\* the caller has the result or catches the exception, lines 140-146
Return ==
  /\ step = "returned"
  /\ step' = "idle"
  /\ UNCHANGED << monitorVars, request, settings, workingCopy, current_branch,
                  result, exception, calls >>

NextEngine ==
  \/ Construct
  \/ Initialize
  \/ HandleManualUpdate
  \/ PushBranchCall
  \/ ProcessUpdate
  \/ CreateFeatureBranch
  \/ CommitChanges
  \/ PushBranch
  \/ CreatePullRequest
  \/ Return

SpecEngine == Init /\ [][NextEngine]_vars


(* ========================================================== engine claims *)
\* every command of every call of the ledger
IssuedCmds == { calls[i].cmds[j] : << i, j >> \in
                  { x \in (1..4) \X (1..6) : x[1] <= Len(calls) /\ x[2] <= Len(calls[x[1]].cmds) } }

\* C1 (as claimed): whatever the external commands answer, no commit and no
\* push is issued while the branch checked out in the working copy is a
\* protected branch, and no protected branch is pushed.
C1_NoWriteOnProtected ==
  \A c \in IssuedCmds :
    /\ c.cmd = "commit -m" => c.on \notin protected_branches
    /\ c.cmd = "push -u origin" => c.on \notin protected_branches /\ c.arg \notin protected_branches

\* C2: push_branch called with current_branch unset or protected raises and
\* issues no command, leaving current_branch and the working copy as they
\* were; otherwise it issues exactly one push, of current_branch.
PushCalls == { i \in 1..Len(calls) : calls[i].op = "push_branch" }
PushBlocked == Falsy(current_branch) \/ current_branch \in protected_branches
C2_PushContract ==
  \A i \in PushCalls :
    IF PushBlocked
      THEN calls[i].raised # None /\ Len(calls[i].cmds) = 0
      ELSE /\ calls[i].raised = None
           /\ Len(calls[i].cmds) = 1
           /\ calls[i].cmds[1].cmd = "push -u origin"
           /\ calls[i].cmds[1].arg = current_branch
C2_PushStep ==
  /\ calls' # calls
  /\ Len(calls') > 0
  /\ calls'[Len(calls')].op = "push_branch"
C2_PushGuard ==
  [](C2_PushContract) /\
  [][ C2_PushStep /\ PushBlocked => UNCHANGED << current_branch, checked_out, staged >> ]_vars
\* a push was refused for a protected current_branch
C2_Witness ==
  \E i \in PushCalls : calls[i].raised # None /\ current_branch \in protected_branches

\* C3 (as claimed): in one process_update a step is attempted only if every
\* step before it succeeded; the steps come in the order branch creation,
\* commit, push, pull request.
WorkflowOrder == << "create_feature_branch", "commit_changes", "push_branch", "create_pull_request" >>
InWorkflow == step \in { "create_branch", "commit", "push", "pr", "returned" }
C3_StopAtFirstFailure ==
  InWorkflow =>
    /\ \A i \in 1..Len(calls) : calls[i].op = WorkflowOrder[i]
    /\ \A i \in 1..(Len(calls) - 1) : calls[i].ok

C10_CurrentBranchTracksCheckout ==
  current_branch # None =>
    current_branch = checked_out /\ current_branch \notin protected_branches


\* C11 (as claimed): every branch-creation step and every commit step
\* begins with the guard _ensure_not_on_main, whose first command is `git
\* branch --show-current`.
C11_GuardBeforeBranchAndCommit ==
  \A i \in 1..Len(calls) :
    calls[i].op \in { "create_feature_branch", "commit_changes" } =>
      /\ Len(calls[i].cmds) > 0
      /\ calls[i].cmds[1].cmd = "branch --show-current"

\* C12 (as claimed): the branch type process_update selects, which it
\* returns as commit_type, is the category of the request it received.
C12_CategorySelectsBranchType ==
  result.status # None => result.commit_type = request.category

\* C13 (as claimed): commit_changes called with an empty list of files
\* issues no commit command, so that nothing staged before is committed.
C13_EmptyCommitRefused ==
  request.files = {} => \A c \in IssuedCmds : c.cmd # "commit -m"

\* C14: a create_pull_request whose `gh --version` or `gh pr create` fails
\* returns no URL and raises nothing; process_update then returns status
\* failed with pr_url absent, and the step changes neither the branch checked
\* out, nor the index, nor current_branch.  The status returned is success
\* exactly if a URL was returned.
C14_Returned ==
  result.status # None =>
    LET pr == calls[Len(calls)]
    IN /\ pr.op = "create_pull_request"
       /\ pr.raised = None
       /\ exception = None
       /\ result.status \in { "success", "failed" }
       /\ result.status = "success" <=> result.pr_url \in PrStdouts \ { "" }
       /\ ~ pr.ok => result.status = "failed" /\ result.pr_url = None
C14_PrStep ==
  step = "pr" /\ step' # step => UNCHANGED << checked_out, staged, current_branch >>
C14_FailedPrKeepsWork == [](C14_Returned) /\ [][C14_PrStep]_vars
\* gh is absent after the branch was created and the commit made
C14_Witness ==
  /\ result.status = "failed"
  /\ Len(calls[4].cmds) = 1
  /\ calls[1].ok /\ calls[2].ok /\ calls[3].ok
  /\ checked_out = result.branch

\* C17 (as claimed): a manager whose prevent_main_commit is not true does
\* not get past its construction, and runs no operation.
C17_SafeguardEnforced ==
  step \notin { "new", "crashed" } \/ calls # << >> => prevent_main_commit = "True"

\* C20: a manual update enters process_update once, with the category
\* feature and exactly the files and the description given, and neither it
\* nor the workflow it starts changes pending_changes, file_hashes,
\* last_process_time or the saved hashes.
C20_Request ==
  entry.mode = "update" /\ step \in { "create_branch", "commit", "push", "pr", "returned", "idle" }
    => request = [ category |-> "feature", files |-> entry.files,
                   description |-> entry.description ]
C20_Step ==
  entry.mode = "update" =>
    /\ UNCHANGED << pending_changes, file_hashes, last_process_time, hash_file >>
    /\ (step # "create_branch" /\ step' = "create_branch" => step = "start")
    /\ (step' = "start" => step \in { "new", "start" })
C20_ManualUpdateBypasses == [](C20_Request) /\ [][C20_Step]_vars
\* a manual update of two files ended failed, the saved hashes still there
C20_Witness ==
  /\ entry.mode = "update"
  /\ Cardinality(entry.files) = 2
  /\ step = "returned"
  /\ result.status = "failed"
  /\ hash_file # << >>
  /\ hash_file = file_hashes

(* ========================================================= monitor claims *)
AllPending == UNION { pending_changes[c] : c \in Categories }
\* a step of the observer thread / of the main thread
EventStep == n_events' # n_events
MainStep == n_events' = n_events

\* C5 (as claimed): under every interleaving of the observer with the flush
\* loop no accepted change is lost: a path added to pending_changes stays
\* there until it is in the path list of a request passed to process_update.
C5_NoChangeLost == owed \subseteq AllPending

\* C6: a process_pending_changes call less than process_delay after
\* last_process_time changes nothing and passes no request on; two calls
\* that pass the delay check are at least process_delay apart; and a call
\* that passes it with no change accepted since the one before passes no
\* request on.
C6_SkipStep ==
  MainStep /\ pc = "monitor" /\ now - last_process_time < process_delay
    => /\ UNCHANGED << pending_changes, file_hashes, hash_file, last_process_time, request >>
       /\ pc' = "monitor"
       /\ flush'.emitted = 0
C6_PassStep ==
  MainStep /\ pc = "monitor" /\ pc' = "loop" => now - last_pass_time >= process_delay
C6_NothingNew ==
  flush.state \in { "running", "done" } /\ flush.clean /\ ~ dirty => flush.emitted = 0
C6_FlushWindow ==
  [][ C6_SkipStep /\ C6_PassStep ]_vars /\ [](C6_NothingNew)
\* a call inside the window was a no-op although changes were pending
C6_Witness == flush.state = "skipped" /\ AllPending # {}

\* C7: a flush past the delay check passes on, for each category of
\* pending_changes in turn, nothing if its set is empty and otherwise one
\* request with that category, the set's paths and the description "Update
\* <path>" for one path, "Update <N> <category> files" for more; it empties
\* the category's set after the request, and ends with last_process_time its
\* current_time and, unless a change was accepted meanwhile, every set empty.
C7_ExpectedDescription(c, F) ==
  IF \E f \in F : F = { f }
    THEN << "Update", CHOOSE f \in F : TRUE >>
    ELSE << "Update", Cardinality(F), c, "files" >>
C7_VisitStep ==
  MainStep /\ pc = "loop" /\ cat_idx <= Len(CategoryOrder) =>
    LET c == CategoryOrder[cat_idx]
    IN IF pending_changes[c] = {}
         THEN flush'.emitted = flush.emitted /\ request' = request /\ cat_idx' = cat_idx + 1
         ELSE /\ flush'.emitted = flush.emitted + 1
              /\ request'.category = c
              /\ request'.files = pending_changes[c]
              /\ request'.description = C7_ExpectedDescription(c, pending_changes[c])
              /\ cat_idx' = cat_idx
              /\ pc' = "clear"
C7_ClearStep ==
  MainStep /\ pc = "clear" =>
    /\ pending_changes' = [ pending_changes EXCEPT ![request.category] = {} ]
    /\ cat_idx' = cat_idx + 1
C7_FinishStep ==
  MainStep /\ pc = "loop" /\ pc' = "monitor" =>
    /\ cat_idx = Len(CategoryOrder) + 1
    /\ last_process_time' = current_time
    /\ (~ dirty => AllPending' = {})
C7_FlushEmits ==
  [][ C7_VisitStep /\ C7_ClearStep /\ C7_FinishStep ]_vars
\* the second request of a flush is "Update 2 config files"
C7_Witness ==
  /\ pc = "clear"
  /\ flush.emitted = 2
  /\ request.description = << "Update", 2, "config", "files" >>

\* C8: an event for a directory, or for a path that _should_ignore_file
\* matches against ignore_patterns, changes neither file_hashes nor
\* pending_changes.
C8_Ignored(e) == e.is_directory \/ e.src_path \in IgnoredSrcPaths
C8_IgnoredEventsNoop ==
  [][ EventStep /\ C8_Ignored(last_event') => UNCHANGED << file_hashes, pending_changes >> ]_vars
\* an on_created event for a file with an ignored path was delivered after a
\* change had been accepted
C8_Witness ==
  /\ last_event.kind = "created"
  /\ ~ last_event.is_directory
  /\ last_event.src_path = SrcPath(<< ".", "e", "n", "v" >>)
  /\ C8_Ignored(last_event)
  /\ AllPending # {}

\* C9: an accepted event that computes the hash the previous event for the
\* same path computed changes neither file_hashes nor pending_changes.
C9_SameHashNoop ==
  [][ EventStep /\ last_event'.repeat => UNCHANGED << file_hashes, pending_changes >> ]_vars
\* the repeated event came after a flush that had emptied the path's set
C9_Witness ==
  /\ last_event.repeat
  /\ last_event.settled
  /\ flush.state = "done"
  /\ flush.emitted > 0
  /\ AllPending = {}

\* C15 (as claimed): a request holds no path whose last accepted change was
\* observed less than process_delay before the flush.  The observer starts at
\* StartTime, so every change a flush finds pending is younger than
\* current_time - StartTime: a flush less than process_delay after StartTime
\* passes no request on.
C15_QuietBeforeFlush ==
  flush.state = "running" /\ current_time - StartTime < process_delay => flush.emitted = 0

\* C16: a changed, accepted path is in the pending set of exactly one
\* category: docs if its lower-cased relative path contains "readme", "doc",
\* ".md" or "license"; otherwise config if it contains "config", ".yaml",
\* ".yml", ".json" or ".ini"; otherwise feature.
C16_Has(rel, markers) == \E m \in markers : Contains(Lower(rel), m)
C16_Class(rel) ==
  IF C16_Has(rel, { <<"r","e","a","d","m","e">>, <<"d","o","c">>, <<".","m","d">>,
                    <<"l","i","c","e","n","s","e">> }) THEN "docs"
  ELSE IF C16_Has(rel, { <<"c","o","n","f","i","g">>, <<".","y","a","m","l">>, <<".","y","m","l">>,
                         <<".","j","s","o","n">>, <<".","i","n","i">> }) THEN "config"
  ELSE "feature"
C16_Examples ==
  /\ C16_Class(<<"d","o","c","s","/","R","E","A","D","M","E",".","m","d">>) = "docs"
  /\ C16_Class(<<"a",".","y","a","m","l">>) = "config"
  /\ C16_Class(<<"b",".","j","s","o","n">>) = "config"
  /\ C16_Class(<<"c",".","t","x","t">>) = "feature"
C16_FirstMatchWins ==
  /\ C16_Examples
  /\ \A p \in DOMAIN file_hashes :
       LET rel == relative_to(p, repo_path)
       IN \A c \in Categories : rel \in pending_changes[c] <=> c = C16_Class(rel)
\* a path with a docs marker and a config marker went to docs
C16_Witness ==
  <<"d","o","c","s","/","a",".","y","a","m","l">> \in pending_changes["docs"]

\* C18 (as claimed): an event for an accepted path that file_hashes does not
\* hold records the path in file_hashes and adds its relative path to the
\* pending set of its category, whatever hash is computed.
C18_MissingPathRecorded ==
  [][ EventStep /\ ~ C8_Ignored(last_event') /\ last_event'.src_path \notin DOMAIN file_hashes
        => /\ last_event'.src_path \in DOMAIN file_hashes'
           /\ relative_to(last_event'.src_path, repo_path)
                \in pending_changes'[CategoryOf[last_event'.src_path]] ]_vars

\* C19: whether process_update succeeds, returns failed or raises, the flush
\* goes on to the next category and passes on every non-empty one, ends
\* with last_process_time updated and file_hashes saved, and the main thread
\* is back in its loop for the next flush.
C19_AfterUpdateStep ==
  MainStep /\ pc = "clear" => pc' = "loop" /\ cat_idx' = cat_idx + 1
C19_NextCategoryStep ==
  MainStep /\ pc = "loop" /\ flush.first_failed > 0 =>
    IF cat_idx <= Len(CategoryOrder)
      THEN pending_changes[CategoryOrder[cat_idx]] # {} =>
             /\ pc' = "clear"
             /\ request'.files = pending_changes[CategoryOrder[cat_idx]]
      ELSE /\ pc' = "monitor"
           /\ last_process_time' = current_time
           /\ hash_file' = file_hashes
           /\ flush'.state = "done"
C19_FailureNotFatal ==
  [](pc \in { "monitor", "loop", "clear" }) /\ [][ C19_AfterUpdateStep /\ C19_NextCategoryStep ]_vars
\* the first update of a flush raised or failed, the second was still made
\* and the flush completed
C19_Witness ==
  /\ flush.state = "done"
  /\ flush.first_failed = 1
  /\ flush.emitted = 2
  /\ pc = "monitor"
  /\ last_process_time = current_time
  /\ hash_file = file_hashes

\* C21: the set of a category is emptied after its request whether
\* process_update succeeded, returned failed or raised; and a path enters a
\* pending set only by an event for it that computes a hash different from
\* the one file_hashes holds, so a dropped batch comes back in no other way.
C21_DropStep ==
  MainStep /\ pc = "clear" /\ outcome \in UpdateOutcomes =>
    pending_changes'[request.category] = {}
C21_AddStep ==
  \A c \in Categories : \A rel \in pending_changes'[c] \ pending_changes[c] :
    /\ EventStep
    /\ ~ C8_Ignored(last_event')
    /\ rel = relative_to(last_event'.src_path, repo_path)
    /\ file_hashes'[last_event'.src_path] # HashGet(file_hashes, last_event'.src_path)
C21_FlushedBatchDropped == [][ C21_DropStep /\ C21_AddStep ]_vars
\* the only request of the first flush did not succeed; its path is in no
\* pending set, and a later event that found the same content left it so
C21_Witness ==
  /\ flush.state = "done"
  /\ current_time = StartTime
  /\ flush.emitted = 1
  /\ flush.first_failed = 1
  /\ last_event.repeat
  /\ last_event.settled
  /\ DOMAIN file_hashes = { last_event.src_path }
  /\ AllPending = {}

\* C22: whatever events and flushes have happened, the pending set of fix is
\* empty, no relative path is in the pending sets of two categories, and the
\* request being processed is never of category fix.
C22_FixNeverPending ==
  /\ pending_changes["fix"] = {}
  /\ \A c1, c2 \in Categories :
       c1 # c2 => pending_changes[c1] \cap pending_changes[c2] = {}
  /\ request.category # "fix"
\* two events in two categories, and a flush over the four categories that
\* emitted exactly their two requests
C22_Witness ==
  /\ flush.state = "done"
  /\ flush.emitted = 2
  /\ n_events = 2
  /\ Cardinality(DOMAIN file_hashes) = 2

====
